---- MODULE Spec2Model ----
(***************************************************************************)
(* Model of animatediff/motion_module_hsxl.py: the HotShotXL motion        *)
(* wrapper, its construction from a weight dictionary, its broadcast       *)
(* setters, and the temporal attention rearrangement.                      *)
(*                                                                         *)
(* A key of the weight dictionary is the sequence of its "."-separated     *)
(* segments (what key.split(".") returns); a tensor is its shape, or a     *)
(* shape with row-major data where element positions matter.               *)
(* An optional Python value is <<>> for None and <<v>> for the value v.    *)
(***************************************************************************)
EXTENDS Integers, Sequences, FiniteSets, TLC

VARIABLES mm_state_dict, pc, error, w, trace, lastCall, temporal, fwd, attn

vars == <<mm_state_dict, pc, error, w, trace, lastCall, temporal, fwd, attn>>

(* ---------------------------- bounds ----------------------------------- *)
MaxKeys == 3
MaxBatch == 8
MaxSide == 2
MaxRows == 6
MaxSeq == 3
MaxFrames == 3
MaxChan == 2

(* ---------------------------- helpers ---------------------------------- *)
NoneVal == <<>>

Some(v) == <<v>>

Min(a, b) == IF a <= b THEN a ELSE b

(* ----------------------- the weight dictionary ------------------------- *)
\* Entries a checkpoint may hold: key segments and the tensor's shape.
KeyPool ==
  { [key |-> <<"down_blocks", "2", "pos_encoder", "positional_encoding">>, shape |-> <<1, 24, 1280>>],
    [key |-> <<"down_blocks", "0", "pos_encoder", "positional_encoding">>, shape |-> <<1, 2, 320>>],
    [key |-> <<"up_blocks", "0", "proj_in", "weight">>, shape |-> <<1280, 1280>>],
    [key |-> <<"down_blocks", "3", "proj_in", "weight">>, shape |-> <<1280, 1280>>],
    [key |-> <<"mid_block", "temporal_attentions", "0", "weight">>, shape |-> <<1280, 1280>>],
    [key |-> <<"mid_block", "attentions", "0", "weight">>, shape |-> <<1280, 1280>>],
    [key |-> <<"down_blocks", "x", "weight">>, shape |-> <<320>>],
    [key |-> <<"down_blocks">>, shape |-> <<320>>],
    [key |-> <<"model", "down_blocks", "2", "weight">>, shape |-> <<320>>] }

\* A dict keeps insertion order and has no key twice.
StateDicts ==
  { d \in UNION { [1..n -> KeyPool] : n \in 0..MaxKeys } :
      \A i, j \in DOMAIN d : d[i].key = d[j].key => i = j }

\* str.endswith("pos_encoder.positional_encoding")
EndsWithPosEncoding(key) ==
  /\ Len(key) >= 2
  /\ key[Len(key)] = "positional_encoding"
  /\ key[Len(key) - 1] = "pos_encoder"

\* "down_blocks" in key
ContainsDownBlocks(key) == \E i \in DOMAIN key : key[i] = "down_blocks"

\* "temporal" in key
ContainsTemporal(key) == \E i \in DOMAIN key : key[i] \in {"temporal_attentions", "temporal"}

\* key.startswith("mid_block.")
StartsWithMidBlock(key) == Len(key) >= 2 /\ key[1] = "mid_block"

\* int(s): the segments int() accepts, with their values; any other raises ValueError
IntLiterals == {<<"0", 0>>, <<"1", 1>>, <<"2", 2>>, <<"3", 3>>}

IsIntLiteral(s) == \E p \in IntLiterals : p[1] = s

IntOf(s) == (CHOOSE p \in IntLiterals : p[1] = s)[2]

(* ------------------ construction-time validators ----------------------- *)
RECURSIVE MaxLenFrom(_, _)
\* get_hsxl_temporal_position_encoding_max_len: the loop from entry i on
MaxLenFrom(d, i) ==
  IF i > Len(d)
    THEN [err |-> "MotionCompatibilityError", val |-> 0]
    ELSE IF EndsWithPosEncoding(d[i].key)
      THEN [err |-> "none", val |-> d[i].shape[2]]
      ELSE MaxLenFrom(d, i + 1)

\* variant: falls back to the default length 24 instead of raising
GetMaxLenDefaultsTo24(d) ==
  LET r == MaxLenFrom(d, 1) IN
  IF r.err # "none" THEN [err |-> "none", val |-> 24] ELSE r

get_hsxl_temporal_position_encoding_max_len(d) == MaxLenFrom(d, 1)

RECURSIVE BlockCountFrom(_, _, _)
\* validate_hsxl_block_count: the loop from entry i on, biggest_block so far
BlockCountFrom(d, i, biggest_block) ==
  IF i > Len(d)
    THEN [err |-> "none", biggest |-> biggest_block]
    ELSE
      LET key == d[i].key IN
      IF ~ContainsDownBlocks(key)
        THEN BlockCountFrom(d, i + 1, biggest_block)
        ELSE IF Len(key) < 2
          THEN [err |-> "IndexError", biggest |-> biggest_block]
          ELSE IF ~IsIntLiteral(key[2])
            THEN BlockCountFrom(d, i + 1, biggest_block)
            ELSE IF IntOf(key[2]) > biggest_block
              THEN BlockCountFrom(d, i + 1, IntOf(key[2]))
              ELSE BlockCountFrom(d, i + 1, biggest_block)

validate_hsxl_block_count(d) ==
  LET r == BlockCountFrom(d, 1, 0) IN
  IF r.err # "none" THEN r.err
  ELSE IF r.biggest # 2 THEN "MotionCompatibilityError"
  ELSE "none"

has_mid_block(d) ==
  \E i \in DOMAIN d : StartsWithMidBlock(d[i].key) /\ ContainsTemporal(d[i].key)

(* --------------------------- the module tree --------------------------- *)
\* BlockType members (motion_utils)
BlockTypeDOWN == "down"

BlockTypeMID == "mid"

BlockTypeUP == "up"

\* CrossAttentionMM.__init__ (motion_utils): no explicit scale override
CrossAttentionMMInit(query_dim, context_dim, heads, dim_head) ==
  [scale |-> NoneVal, query_dim |-> query_dim, context_dim |-> context_dim,
   heads |-> heads, dim_head |-> dim_head]

\* TemporalTransformerGeneric.temporal_transformer_init (motion_utils)
temporal_transformer_init(default_length) ==
  [video_length |-> default_length, full_length |-> default_length,
   scale_min |-> 1, scale_max |-> 1, raw_scale_mask |-> NoneVal, sub_idxs |-> NoneVal]

\* PositionalEncoding.__init__: a buffer of shape (1, max_length, dim)
PositionalEncoding(dim, max_length) ==
  [positional_encoding |-> <<1, max_length, dim>>]

\* TemporalAttention.__init__
TemporalAttention(max_length, query_dim, context_dim, heads, dim_head) ==
  [pos_encoder |-> PositionalEncoding(query_dim, max_length)]
    @@ CrossAttentionMMInit(query_dim, context_dim, heads, dim_head)

\* TransformerBlock.__init__ default depth
TransformerBlockDepth == 2

\* TransformerBlock.__init__
TransformerBlock(dim, num_attention_heads, attention_head_dim, cross_attention_dim, max_length) ==
  [is_cross |-> cross_attention_dim # NoneVal,
   attention_blocks |->
     [i \in 1..TransformerBlockDepth |->
        TemporalAttention(max_length, dim, cross_attention_dim,
                          num_attention_heads, attention_head_dim)]]

\* TransformerTemporal.__init__ default num_layers
TransformerTemporalNumLayers == 1

\* TransformerTemporal.__init__ default_length
DefaultLength == 8

\* TransformerTemporal.__init__ norm_num_groups
NormNumGroups == 32

\* TransformerTemporal.__init__
TransformerTemporal(num_attention_heads, attention_head_dim, in_channels, max_length) ==
  LET inner_dim == num_attention_heads * attention_head_dim IN
  [in_channels |-> in_channels,
   inner_dim |-> inner_dim,
   norm |-> [num_groups |-> NormNumGroups, num_channels |-> in_channels],
   transformer_blocks |->
     [i \in 1..TransformerTemporalNumLayers |->
        TransformerBlock(inner_dim, num_attention_heads, attention_head_dim,
                         NoneVal, max_length)]]
    @@ temporal_transformer_init(DefaultLength)

\* get_transformer_temporal: num_attention_heads
NumAttentionHeads == 8

get_transformer_temporal(in_channels, max_length) ==
  TransformerTemporal(NumAttentionHeads, in_channels \div NumAttentionHeads,
                      in_channels, max_length)

\* variant: up blocks do not get their additional TransformerTemporal
HotShotXLMotionModuleNoThird(in_channels, block_type, max_length) ==
  IF block_type = BlockTypeMID
    THEN [temporal_attentions |-> <<get_transformer_temporal(in_channels, max_length)>>]
    ELSE [temporal_attentions |->
            <<get_transformer_temporal(in_channels, max_length),
              get_transformer_temporal(in_channels, max_length)>>]

\* HotShotXLMotionModule.__init__ body
HotShotXLMotionModule(in_channels, block_type, max_length) ==
  IF block_type = BlockTypeMID
    THEN [temporal_attentions |-> <<get_transformer_temporal(in_channels, max_length)>>]
    ELSE
      LET two == <<get_transformer_temporal(in_channels, max_length),
                   get_transformer_temporal(in_channels, max_length)>> IN
      IF block_type = BlockTypeUP
        THEN [temporal_attentions |->
                Append(two, get_transformer_temporal(in_channels, max_length))]
        ELSE [temporal_attentions |-> two]

\* HotShotXLMotionModule.__init__ signature: keyword parameters and defaults
ModuleInitDefaults == [block_type |-> BlockTypeDOWN, max_length |-> 24]

\* The call HotShotXLMotionModule(in_channels, **kwargs): a keyword that is
\* no parameter of __init__ raises TypeError before the body runs.
CallHotShotXLMotionModule(in_channels, kwargs) ==
  IF ~(DOMAIN kwargs \subseteq DOMAIN ModuleInitDefaults)
    THEN [err |-> "TypeError", val |-> NoneVal]
    ELSE
      LET bound == kwargs @@ ModuleInitDefaults IN
      [err |-> "none",
       val |-> Some(HotShotXLMotionModule(in_channels, bound.block_type, bound.max_length))]

\* HotShotXLMotionWrapper.__init__: channel widths of the down and up loops
DownChannels == <<320, 640, 1280>>

\* variant: the up loop stops one width short
UpChannelsTwo == <<1280, 640>>

UpChannels == <<1280, 640, 320>>

MidChannels == 1280

(* ------------------------------ setters -------------------------------- *)
\* A float multiplier m is held as the integer d = (m - 1.0) * 10^10: 0 is 1.0,
\* 5 is 1.0000000005, 1000000000 is 1.1. math.isclose's default rel_tol is
\* 1e-09, which is 10 of these units and the 10^9-th part of 1.0.
RelTolUnits == 10

RelTolInverse == 1000000000

\* math.isclose(multiplier, 1.0): abs(m - 1.0) <= 1e-09 * max(abs(m), abs(1.0)).
\* With m = 1 + d * 1e-10 and d >= 0 this is d <= 10 + d / 10^9, that is
\* d - 10 <= floor(d / 10^9); with d < 0 it is -d <= 10.
IsCloseToOne(d) ==
  IF d >= 0
    THEN d - RelTolUnits <= d \div RelTolInverse
    ELSE 0 - d <= RelTolUnits

\* variant: compares with 1.0 exactly instead of math.isclose
TemporalAttention_set_scale_multiplier_Exact(ta, multiplier) ==
  IF multiplier = NoneVal \/ multiplier[1] = 0
    THEN [ta EXCEPT !.scale = NoneVal]
    ELSE [ta EXCEPT !.scale = multiplier]

\* TemporalAttention.set_scale_multiplier
TemporalAttention_set_scale_multiplier(ta, multiplier) ==
  IF multiplier = NoneVal \/ IsCloseToOne(multiplier[1])
    THEN [ta EXCEPT !.scale = NoneVal]
    ELSE [ta EXCEPT !.scale = multiplier]

\* TransformerBlock.set_scale_multiplier
TransformerBlock_set_scale_multiplier(tb, multiplier) ==
  [tb EXCEPT !.attention_blocks =
     [i \in DOMAIN @ |-> TemporalAttention_set_scale_multiplier(@[i], multiplier)]]

\* TransformerTemporal.set_video_length
TransformerTemporal_set_video_length(tt, video_length, full_length) ==
  [tt EXCEPT !.video_length = video_length, !.full_length = full_length]

\* TransformerTemporal.set_scale_multiplier
TransformerTemporal_set_scale_multiplier(tt, multiplier) ==
  [tt EXCEPT !.transformer_blocks =
     [i \in DOMAIN @ |-> TransformerBlock_set_scale_multiplier(@[i], multiplier)]]

\* TransformerTemporal.set_masks
TransformerTemporal_set_masks(tt, masks, min_val, max_val) ==
  [tt EXCEPT !.scale_min = min_val, !.scale_max = max_val, !.raw_scale_mask = masks]

\* TransformerTemporal.set_sub_idxs
TransformerTemporal_set_sub_idxs(tt, sub_idxs) ==
  [tt EXCEPT !.sub_idxs = sub_idxs]

\* HotShotXLMotionModule.set_video_length
Module_set_video_length(m, video_length, full_length) ==
  [m EXCEPT !.temporal_attentions =
     [i \in DOMAIN @ |-> TransformerTemporal_set_video_length(@[i], video_length, full_length)]]

\* HotShotXLMotionModule.set_scale_multiplier
Module_set_scale_multiplier(m, multiplier) ==
  [m EXCEPT !.temporal_attentions =
     [i \in DOMAIN @ |-> TransformerTemporal_set_scale_multiplier(@[i], multiplier)]]

\* HotShotXLMotionModule.set_masks
Module_set_masks(m, masks, min_val, max_val) ==
  [m EXCEPT !.temporal_attentions =
     [i \in DOMAIN @ |-> TransformerTemporal_set_masks(@[i], masks, min_val, max_val)]]

\* HotShotXLMotionModule.set_sub_idxs
Module_set_sub_idxs(m, sub_idxs) ==
  [m EXCEPT !.temporal_attentions =
     [i \in DOMAIN @ |-> TransformerTemporal_set_sub_idxs(@[i], sub_idxs)]]

\* HotShotXLMotionWrapper.set_video_length
Wrapper_set_video_length(wr, video_length, full_length) ==
  [wr EXCEPT
     !.AD_video_length = video_length,
     !.down_blocks = [i \in DOMAIN @ |-> Module_set_video_length(@[i], video_length, full_length)],
     !.up_blocks = [i \in DOMAIN @ |-> Module_set_video_length(@[i], video_length, full_length)],
     !.mid_block = IF @ = NoneVal THEN @
                   ELSE Some(Module_set_video_length(@[1], video_length, full_length))]

\* HotShotXLMotionWrapper.set_scale_multiplier
Wrapper_set_scale_multiplier(wr, multiplier) ==
  [wr EXCEPT
     !.down_blocks = [i \in DOMAIN @ |-> Module_set_scale_multiplier(@[i], multiplier)],
     !.up_blocks = [i \in DOMAIN @ |-> Module_set_scale_multiplier(@[i], multiplier)],
     !.mid_block = IF @ = NoneVal THEN @
                   ELSE Some(Module_set_scale_multiplier(@[1], multiplier))]

\* HotShotXLMotionWrapper.set_masks
Wrapper_set_masks(wr, masks, min_val, max_val) ==
  [wr EXCEPT
     !.down_blocks = [i \in DOMAIN @ |-> Module_set_masks(@[i], masks, min_val, max_val)],
     !.up_blocks = [i \in DOMAIN @ |-> Module_set_masks(@[i], masks, min_val, max_val)],
     !.mid_block = IF @ = NoneVal THEN @
                   ELSE Some(Module_set_masks(@[1], masks, min_val, max_val))]

\* variant: the loop over up_blocks is missing
Wrapper_set_sub_idxs_SkipsUp(wr, sub_idxs) ==
  [wr EXCEPT
     !.down_blocks = [i \in DOMAIN @ |-> Module_set_sub_idxs(@[i], sub_idxs)],
     !.mid_block = IF @ = NoneVal THEN @
                   ELSE Some(Module_set_sub_idxs(@[1], sub_idxs))]

\* HotShotXLMotionWrapper.set_sub_idxs
Wrapper_set_sub_idxs(wr, sub_idxs) ==
  [wr EXCEPT
     !.down_blocks = [i \in DOMAIN @ |-> Module_set_sub_idxs(@[i], sub_idxs)],
     !.up_blocks = [i \in DOMAIN @ |-> Module_set_sub_idxs(@[i], sub_idxs)],
     !.mid_block = IF @ = NoneVal THEN @
                   ELSE Some(Module_set_sub_idxs(@[1], sub_idxs))]

(* ------------------------ forward, on shapes --------------------------- *)
\* tensor + tensor on two shapes of equal rank: sizes must agree or be 1
BroadcastShapes(a, b) ==
  IF Len(a) = Len(b) /\ \A i \in DOMAIN a : a[i] = b[i] \/ a[i] = 1 \/ b[i] = 1
    THEN [err |-> "none",
          shape |-> [i \in DOMAIN a |-> IF a[i] = 1 THEN b[i] ELSE a[i]]]
    ELSE [err |-> "RuntimeError", shape |-> <<>>]

\* rearrange(hidden_states, "(b f) s c -> (b s) f c", f=number_of_frames)
RearrangeToFramesShape(shape, f) ==
  IF f <= 0 \/ shape[1] % f # 0
    THEN [err |-> "EinopsError", shape |-> <<>>]
    ELSE [err |-> "none", shape |-> <<(shape[1] \div f) * shape[2], f, shape[3]>>]

\* variant: the result is returned in the layout the attention produced
RearrangeFromFramesShapeKeepsLayout(shape, s) ==
  [err |-> "none", shape |-> shape]

\* rearrange(hidden_states, "(b s) f c -> (b f) s c", s=sequence_length)
RearrangeFromFramesShape(shape, s) ==
  IF s <= 0 \/ shape[1] % s # 0
    THEN [err |-> "EinopsError", shape |-> <<>>]
    ELSE [err |-> "none", shape |-> <<(shape[1] \div s) * shape[2], s, shape[3]>>]

\* PositionalEncoding.forward: hidden_states + positional_encoding[:, :length]
PositionalEncoding_forward_shape(pe, shape, length) ==
  LET buf == pe.positional_encoding
      sliced == <<buf[1], Min(length, buf[2]), buf[3]>>
  IN BroadcastShapes(shape, sliced)

\* TemporalAttention.forward; the wrapped attention returns a tensor shaped as
\* the one it is given
TemporalAttention_forward_shape(ta, shape, number_of_frames) ==
  LET sequence_length == shape[2]
      r1 == RearrangeToFramesShape(shape, number_of_frames)
  IN IF r1.err # "none" THEN r1
     ELSE LET r2 == PositionalEncoding_forward_shape(ta.pos_encoder, r1.shape, number_of_frames)
          IN IF r2.err # "none" THEN r2
             ELSE RearrangeFromFramesShape(r2.shape, sequence_length)

RECURSIVE AttentionBlocksFrom(_, _, _, _)
\* TransformerBlock.forward: the loop over attention_blocks from index i on
AttentionBlocksFrom(tb, i, shape, number_of_frames) ==
  IF i > Len(tb.attention_blocks)
    THEN [err |-> "none", shape |-> shape]
    ELSE
      LET r == TemporalAttention_forward_shape(tb.attention_blocks[i], shape, number_of_frames)
      IN IF r.err # "none" THEN r
         ELSE LET sum == BroadcastShapes(r.shape, shape)
              IN IF sum.err # "none" THEN sum
                 ELSE AttentionBlocksFrom(tb, i + 1, sum.shape, number_of_frames)

\* TransformerBlock.forward; norm and feed-forward keep the shape
TransformerBlock_forward_shape(tb, shape, number_of_frames) ==
  AttentionBlocksFrom(tb, 1, shape, number_of_frames)

RECURSIVE TransformerBlocksFrom(_, _, _)
\* TransformerTemporal.forward: the loop over transformer_blocks from index i on
TransformerBlocksFrom(tt, i, shape) ==
  IF i > Len(tt.transformer_blocks)
    THEN [err |-> "none", shape |-> shape]
    ELSE
      LET r == TransformerBlock_forward_shape(tt.transformer_blocks[i], shape, tt.video_length)
      IN IF r.err # "none" THEN r
         ELSE TransformerBlocksFrom(tt, i + 1, r.shape)

\* TemporalTransformerGeneric.get_scale_mask (motion_utils): None without a
\* mask, else the mask at sub_idxs clamped into [scale_min, scale_max]
get_scale_mask(tt) ==
  IF tt.raw_scale_mask = NoneVal
    THEN NoneVal
    ELSE Some([mask |-> tt.raw_scale_mask[1], idxs |-> tt.sub_idxs,
               min |-> tt.scale_min, max |-> tt.scale_max])

\* TransformerTemporal.forward on the shape (batch, channel, height, width)
TransformerTemporal_forward_shape(tt, shape) ==
  LET batch == shape[1]
      channel == shape[2]
      height == shape[3]
      width == shape[4]
      inner_dim == channel
      flat == <<batch, height * width, inner_dim>>
      proj_in == <<flat[1], flat[2], tt.inner_dim>>
      blocks == TransformerBlocksFrom(tt, 1, proj_in)
  IN IF blocks.err # "none" THEN blocks
     ELSE
       LET proj_out == <<blocks.shape[1], blocks.shape[2], tt.in_channels>>
       IN IF proj_out[1] * proj_out[2] * proj_out[3] # batch * height * width * inner_dim
            THEN [err |-> "RuntimeError", shape |-> <<>>]
            ELSE BroadcastShapes(<<batch, inner_dim, height, width>>, shape)

(* ------------------- HotShotXLMotionWrapper.__init__ ------------------- *)
\* The constructor runs statement by statement; pc names the statement it is
\* at, trace records the dictionary inspections and module instantiations
\* done so far.
Fail(e) ==
  /\ pc' = "failed"
  /\ error' = e

\* lines 62-65: the empty module lists and mid_block = None
InitFields ==
  /\ pc = "init"
  /\ w' = [down_blocks |-> <<>>, up_blocks |-> <<>>, mid_block |-> NoneVal]
  /\ pc' = "max_len"
  /\ UNCHANGED <<mm_state_dict, error, trace, lastCall, temporal, fwd, attn>>

\* line 66
GetMaxLen ==
  /\ pc = "max_len"
  /\ trace' = Append(trace, "get_max_len")
  /\ LET r == get_hsxl_temporal_position_encoding_max_len(mm_state_dict) IN
     IF r.err # "none"
       THEN Fail(r.err) /\ UNCHANGED w
       ELSE /\ w' = [encoding_max_len |-> r.val] @@ w
            /\ pc' = "validate"
            /\ UNCHANGED error
  /\ UNCHANGED <<mm_state_dict, lastCall, temporal, fwd, attn>>

\* line 67
ValidateBlockCount ==
  /\ pc = "validate"
  /\ trace' = Append(trace, "validate_block_count")
  /\ LET e == validate_hsxl_block_count(mm_state_dict) IN
     IF e # "none"
       THEN Fail(e)
       ELSE pc' = "down" /\ UNCHANGED error
  /\ UNCHANGED <<mm_state_dict, w, lastCall, temporal, fwd, attn>>

\* lines 68-69, one iteration
AppendDownBlock ==
  /\ pc = "down"
  /\ LET c == DownChannels[Len(w.down_blocks) + 1]
         r == CallHotShotXLMotionModule(
                c, [block_type |-> BlockTypeDOWN, max_length |-> w.encoding_max_len])
     IN IF r.err # "none"
          THEN Fail(r.err) /\ UNCHANGED <<w, trace>>
          ELSE /\ w' = [w EXCEPT !.down_blocks = Append(@, r.val[1])]
               /\ trace' = Append(trace, "module")
               /\ pc' = IF Len(w.down_blocks) + 1 = Len(DownChannels) THEN "up" ELSE "down"
               /\ UNCHANGED error
  /\ UNCHANGED <<mm_state_dict, lastCall, temporal, fwd, attn>>

\* lines 70-71, one iteration
AppendUpBlock ==
  /\ pc = "up"
  /\ LET c == UpChannels[Len(w.up_blocks) + 1]
         r == CallHotShotXLMotionModule(
                c, [block_type |-> BlockTypeUP, max_length |-> w.encoding_max_len])
     IN IF r.err # "none"
          THEN Fail(r.err) /\ UNCHANGED <<w, trace>>
          ELSE /\ w' = [w EXCEPT !.up_blocks = Append(@, r.val[1])]
               /\ trace' = Append(trace, "module")
               /\ pc' = IF Len(w.up_blocks) + 1 = Len(UpChannels) THEN "has_mid" ELSE "up"
               /\ UNCHANGED error
  /\ UNCHANGED <<mm_state_dict, lastCall, temporal, fwd, attn>>

\* line 72
CheckMidBlock ==
  /\ pc = "has_mid"
  /\ trace' = Append(trace, "has_mid_block")
  /\ pc' = IF has_mid_block(mm_state_dict) THEN "mid" ELSE "finish"
  /\ UNCHANGED <<mm_state_dict, error, w, lastCall, temporal, fwd, attn>>

\* line 73: the keyword is spelled BlockType
BuildMidBlock ==
  /\ pc = "mid"
  /\ LET r == CallHotShotXLMotionModule(
                MidChannels, [BlockType |-> BlockTypeMID, max_length |-> w.encoding_max_len])
     IN IF r.err # "none"
          THEN Fail(r.err) /\ UNCHANGED <<w, trace>>
          ELSE /\ w' = [w EXCEPT !.mid_block = r.val]
               /\ trace' = Append(trace, "module")
               /\ pc' = "finish"
               /\ UNCHANGED error
  /\ UNCHANGED <<mm_state_dict, lastCall, temporal, fwd, attn>>

\* lines 74-79
FinishInit ==
  /\ pc = "finish"
  /\ w' = [version |-> IF w.mid_block = NoneVal THEN "HSXL v1" ELSE "HSXL v2",
           AD_video_length |-> DefaultLength] @@ w
  /\ pc' = "done"
  /\ UNCHANGED <<mm_state_dict, error, trace, lastCall, temporal, fwd, attn>>

(* ------------------ the per-step configuration calls ------------------- *)
VideoLengths == {2, 3}

FullLengths == {6}

Masks == {"maskA", "maskB"}

ScaleRanges == {<<0, 1>>, <<1, 2>>}

SubIdxs == {NoneVal, Some(<<0, 1>>), Some(<<1, 0>>)}

\* None, 1.0, 1.0000000005, 1.0000001 and 1.1
Multipliers == {NoneVal, Some(0), Some(5), Some(1000), Some(1000000000)}

\* lastCall holds the arguments of the most recent call of each setter; fwd
\* holds the outcome of the most recent call when that call was forward.
NoCalls == [video |-> NoneVal, masks |-> NoneVal, sub |-> NoneVal, scale |-> NoneVal]

SetVideoLength ==
  /\ pc = "done"
  /\ \E video_length \in VideoLengths, full_length \in FullLengths :
       /\ w' = Wrapper_set_video_length(w, video_length, full_length)
       /\ lastCall' = [lastCall EXCEPT !.video = Some(<<video_length, full_length>>)]
  /\ UNCHANGED <<mm_state_dict, pc, error, trace, temporal, fwd, attn>>

SetScaleMultiplier ==
  /\ pc = "done"
  /\ \E multiplier \in Multipliers :
       /\ w' = Wrapper_set_scale_multiplier(w, multiplier)
       /\ lastCall' = [lastCall EXCEPT !.scale = Some(multiplier)]
  /\ UNCHANGED <<mm_state_dict, pc, error, trace, temporal, fwd, attn>>

SetMasks ==
  /\ pc = "done"
  /\ \E masks \in Masks, range \in ScaleRanges :
       /\ w' = Wrapper_set_masks(w, Some(masks), range[1], range[2])
       /\ lastCall' = [lastCall EXCEPT !.masks = Some(<<Some(masks), range[1], range[2]>>)]
  /\ UNCHANGED <<mm_state_dict, pc, error, trace, temporal, fwd, attn>>

SetSubIdxs ==
  /\ pc = "done"
  /\ \E sub_idxs \in SubIdxs :
       /\ w' = Wrapper_set_sub_idxs(w, sub_idxs)
       /\ lastCall' = [lastCall EXCEPT !.sub = Some(sub_idxs)]
  /\ UNCHANGED <<mm_state_dict, pc, error, trace, temporal, fwd, attn>>

\* The modules of the tree in broadcast order: down_blocks, up_blocks, mid_block
TreeModules(wr) ==
  wr.down_blocks \o wr.up_blocks \o
    (IF wr.mid_block = NoneVal THEN <<>> ELSE <<wr.mid_block[1]>>)

\* <<i, j>>: the j-th TransformerTemporal of the i-th module of the tree
TemporalPaths(wr) ==
  UNION { { <<i, j>> : j \in DOMAIN TreeModules(wr)[i].temporal_attentions } :
            i \in DOMAIN TreeModules(wr) }

TemporalAt(wr, p) == TreeModules(wr)[p[1]].temporal_attentions[p[2]]

\* every TemporalAttention of a TransformerTemporal
AttentionsOf(tt) ==
  UNION { { tt.transformer_blocks[i].attention_blocks[j] :
              j \in DOMAIN tt.transformer_blocks[i].attention_blocks } :
            i \in DOMAIN tt.transformer_blocks }

\* the max_length every positional encoder of a TransformerTemporal was built with
EncoderLengths(tt) == { ta.pos_encoder.positional_encoding[2] : ta \in AttentionsOf(tt) }

\* One TransformerTemporal driven directly: its setters and forward. fwd
\* holds the outcome of the most recent call when that call was forward.
TTSetVideoLength ==
  /\ temporal # NoneVal
  /\ \E video_length \in VideoLengths, full_length \in FullLengths :
       temporal' = Some(TransformerTemporal_set_video_length(temporal[1], video_length, full_length))
  /\ fwd' = NoneVal
  /\ UNCHANGED <<mm_state_dict, pc, error, w, trace, lastCall, attn>>

TTSetScaleMultiplier ==
  /\ temporal # NoneVal
  /\ \E multiplier \in Multipliers :
       temporal' = Some(TransformerTemporal_set_scale_multiplier(temporal[1], multiplier))
  /\ fwd' = NoneVal
  /\ UNCHANGED <<mm_state_dict, pc, error, w, trace, lastCall, attn>>

TTSetMasks ==
  /\ temporal # NoneVal
  /\ \E masks \in Masks, range \in ScaleRanges :
       temporal' = Some(TransformerTemporal_set_masks(temporal[1], Some(masks), range[1], range[2]))
  /\ fwd' = NoneVal
  /\ UNCHANGED <<mm_state_dict, pc, error, w, trace, lastCall, attn>>

TTSetSubIdxs ==
  /\ temporal # NoneVal
  /\ \E sub_idxs \in SubIdxs :
       temporal' = Some(TransformerTemporal_set_sub_idxs(temporal[1], sub_idxs))
  /\ fwd' = NoneVal
  /\ UNCHANGED <<mm_state_dict, pc, error, w, trace, lastCall, attn>>

\* TransformerTemporal.forward on an input whose channel count is the
\* module's width
Forward ==
  /\ temporal # NoneVal
  /\ \E batch \in 1..MaxBatch, height \in 1..MaxSide, width \in 1..MaxSide :
       LET shape == <<batch, temporal[1].in_channels, height, width>>
       IN fwd' = Some([input |-> shape,
                       number_of_frames |-> temporal[1].video_length,
                       max_lengths |-> EncoderLengths(temporal[1]),
                       scale_mask |-> get_scale_mask(temporal[1]),
                       out |-> TransformerTemporal_forward_shape(temporal[1], shape)])
  /\ UNCHANGED <<mm_state_dict, pc, error, w, trace, lastCall, temporal, attn>>

(* -------------------- forward, on element positions -------------------- *)
\* A tensor is [shape, data] with data in row-major order.
RECURSIVE Product(_)
Product(shape) == IF shape = <<>> THEN 1 ELSE shape[1] * Product(Tail(shape))

RECURSIVE Ravel(_, _)
\* the row-major offset of a 0-based index tuple
Ravel(idx, shape) ==
  IF Len(idx) = 0 THEN 0
  ELSE idx[1] * Product(Tail(shape)) + Ravel(Tail(idx), Tail(shape))

RECURSIVE Unravel(_, _)
\* the 0-based index tuple of a row-major offset
Unravel(k, shape) ==
  IF Len(shape) = 0 THEN <<>>
  ELSE <<k \div Product(Tail(shape))>> \o Unravel(k % Product(Tail(shape)), Tail(shape))

\* Tensor.reshape: same data, new shape
Reshape(t, shape) == [shape |-> shape, data |-> t.data]

\* axis transposition: axis j of the result is axis perm[j] of t
Permute(t, perm) ==
  LET shape == [j \in DOMAIN perm |-> t.shape[perm[j]]] IN
  [shape |-> shape,
   data |-> [k \in 1..Len(t.data) |->
               LET o == Unravel(k - 1, shape)
                   src == [a \in DOMAIN perm |-> o[CHOOSE j \in DOMAIN perm : perm[j] = a]]
               IN t.data[Ravel(src, t.shape) + 1]]]

\* variant: the first axis is split as (f b) instead of (b f)
RearrangeToFramesFrameMajor(t, f) ==
  LET r == RearrangeToFramesShape(t.shape, f) IN
  IF r.err # "none" THEN [err |-> r.err, val |-> NoneVal]
  ELSE
    LET b == t.shape[1] \div f
        split == Reshape(t, <<f, b, t.shape[2], t.shape[3]>>)
    IN [err |-> "none", val |-> Some(Reshape(Permute(split, <<2, 3, 1, 4>>), r.shape))]

\* rearrange(t, "(b f) s c -> (b s) f c", f=f): split the first axis into
\* (b, f), swap f and s, merge (b, s)
RearrangeToFrames(t, f) ==
  LET r == RearrangeToFramesShape(t.shape, f) IN
  IF r.err # "none" THEN [err |-> r.err, val |-> NoneVal]
  ELSE
    LET b == t.shape[1] \div f
        split == Reshape(t, <<b, f, t.shape[2], t.shape[3]>>)
    IN [err |-> "none", val |-> Some(Reshape(Permute(split, <<1, 3, 2, 4>>), r.shape))]

\* rearrange(t, "(b s) f c -> (b f) s c", s=s)
RearrangeFromFrames(t, s) ==
  LET r == RearrangeFromFramesShape(t.shape, s) IN
  IF r.err # "none" THEN [err |-> r.err, val |-> NoneVal]
  ELSE
    LET b == t.shape[1] \div s
        split == Reshape(t, <<b, s, t.shape[2], t.shape[3]>>)
    IN [err |-> "none", val |-> Some(Reshape(Permute(split, <<1, 3, 2, 4>>), r.shape))]

\* TemporalAttention.forward on element positions: data holds, for each
\* element, the position it had in the input. Adding the positional encoding
\* and the wrapped attention leave every element of their result at the
\* position of the element it is computed for.
TemporalAttention_forward(ta, t, number_of_frames) ==
  LET sequence_length == t.shape[2]
      r1 == RearrangeToFrames(t, number_of_frames)
  IN IF r1.err # "none" THEN [err |-> r1.err, given |-> NoneVal, val |-> NoneVal]
     ELSE
       LET r2 == PositionalEncoding_forward_shape(ta.pos_encoder, r1.val[1].shape, number_of_frames)
       IN IF r2.err # "none" THEN [err |-> r2.err, given |-> NoneVal, val |-> NoneVal]
          ELSE
            LET given == Reshape(r1.val[1], r2.shape)
                r3 == RearrangeFromFrames(given, sequence_length)
            IN [err |-> r3.err, given |-> Some(given), val |-> r3.val]

\* the input tensor whose elements are numbered by position
PositionTensor(shape) == [shape |-> shape, data |-> [k \in 1..Product(shape) |-> k]]

AttnForward ==
  /\ attn # NoneVal
  /\ attn[1].stage = "input"
  /\ LET a == attn[1]
         ta == TemporalAttention(a.max_length, a.x.shape[3], NoneVal, 1, a.x.shape[3])
         r == TemporalAttention_forward(ta, a.x, a.number_of_frames)
     IN attn' = Some([a EXCEPT !.stage = IF r.err = "none" THEN "done" ELSE "failed",
                               !.err = r.err, !.given = r.given, !.out = r.val])
  /\ UNCHANGED <<mm_state_dict, pc, error, w, trace, lastCall, temporal, fwd>>

(* --------------------------- specifications ---------------------------- *)
Init ==
  /\ mm_state_dict \in StateDicts
  /\ pc = "init"
  /\ error = "none"
  /\ w = <<>>
  /\ trace = <<>>
  /\ lastCall = NoCalls
  /\ temporal = NoneVal
  /\ fwd = NoneVal
  /\ attn = NoneVal

Next ==
  \/ InitFields
  \/ GetMaxLen
  \/ ValidateBlockCount
  \/ AppendDownBlock
  \/ AppendUpBlock
  \/ CheckMidBlock
  \/ BuildMidBlock
  \/ FinishInit

Spec == Init /\ [][Next]_vars

\* Checkpoints for the per-step calls: two that load, with different
\* positional encoding lengths, and one with a temporal mid block.
PosEntry24 ==
  [key |-> <<"down_blocks", "2", "pos_encoder", "positional_encoding">>, shape |-> <<1, 24, 1280>>]

PosEntry2 ==
  [key |-> <<"down_blocks", "0", "pos_encoder", "positional_encoding">>, shape |-> <<1, 2, 320>>]

MidTemporalEntry ==
  [key |-> <<"mid_block", "temporal_attentions", "0", "weight">>, shape |-> <<1280, 1280>>]

OpsDicts ==
  StateDicts \cap { <<PosEntry24>>, <<PosEntry2, PosEntry24>>, <<PosEntry24, MidTemporalEntry>> }

InitOps ==
  /\ mm_state_dict \in OpsDicts
  /\ pc = "init"
  /\ error = "none"
  /\ w = <<>>
  /\ trace = <<>>
  /\ lastCall = NoCalls
  /\ temporal = NoneVal
  /\ fwd = NoneVal
  /\ attn = NoneVal

NextOps ==
  \/ Next
  \/ SetVideoLength
  \/ SetScaleMultiplier
  \/ SetMasks
  \/ SetSubIdxs

SpecOps == InitOps /\ [][NextOps]_vars

\* the max sequence lengths the pool's positional encodings give
EncodingLengths == { e.shape[2] : e \in { x \in KeyPool : EndsWithPosEncoding(x.key) } }

InitFwd ==
  /\ mm_state_dict = <<>>
  /\ pc = "idle"
  /\ error = "none"
  /\ w = <<>>
  /\ trace = <<>>
  /\ lastCall = NoCalls
  /\ \E i \in DOMAIN DownChannels, max_length \in EncodingLengths :
       temporal = Some(get_transformer_temporal(DownChannels[i], max_length))
  /\ fwd = NoneVal
  /\ attn = NoneVal

NextFwd ==
  \/ TTSetVideoLength
  \/ TTSetScaleMultiplier
  \/ TTSetMasks
  \/ TTSetSubIdxs
  \/ Forward

SpecFwd == InitFwd /\ [][NextFwd]_vars

InitAttn ==
  /\ mm_state_dict = <<>>
  /\ pc = "idle"
  /\ error = "none"
  /\ w = <<>>
  /\ trace = <<>>
  /\ lastCall = NoCalls
  /\ temporal = NoneVal
  /\ fwd = NoneVal
  /\ \E rows \in 1..MaxRows, s \in 1..MaxSeq, c \in 1..MaxChan,
        f \in 1..MaxFrames, max_length \in 1..MaxFrames :
       attn = Some([stage |-> "input", x |-> PositionTensor(<<rows, s, c>>),
                    number_of_frames |-> f, max_length |-> max_length,
                    err |-> "none", given |-> NoneVal, out |-> NoneVal])

NextAttn == AttnForward

SpecAttn == InitAttn /\ [][NextAttn]_vars

(* ------------------------------ properties ----------------------------- *)
\* the dictionary has a key ending with "pos_encoder.positional_encoding"
HasPosKey(d) == \E i \in DOMAIN d : EndsWithPosEncoding(d[i].key)

\* the middle dimension of the first such tensor in the dictionary's order
FirstPosLength(d) ==
  d[CHOOSE i \in DOMAIN d :
      /\ EndsWithPosEncoding(d[i].key)
      /\ \A j \in 1..(i - 1) : ~EndsWithPosEncoding(d[j].key)].shape[2]

\* the integer segments that follow a down_blocks segment, over all keys
DownLevelIndexes(d) ==
  { IntOf(d[i].key[k + 1]) :
      <<i, k>> \in { p \in (DOMAIN d) \X (1..4) :
                       /\ p[2] + 1 <= Len(d[p[1]].key)
                       /\ d[p[1]].key[p[2]] = "down_blocks"
                       /\ IsIntLiteral(d[p[1]].key[p[2] + 1]) } }

MaxDownLevelIsTwo(d) ==
  /\ 2 \in DownLevelIndexes(d)
  /\ \A n \in DownLevelIndexes(d) : n <= 2

LookupDone == pc \notin {"init", "max_len", "idle"}

ValidationDone == pc \notin {"init", "max_len", "validate", "idle"} /\ Len(trace) >= 2

\* C1: for every weight dictionary that passes the positional-encoding and
\* down-level checks, construction completes; with a key that starts with
\* "mid_block." and contains "temporal" the version is "HSXL v2" and mid_block
\* is a module, otherwise the version is "HSXL v1" and mid_block is None.
C1_MidBlockDecidesVersion ==
  (/\ pc \in {"done", "failed"}
   /\ get_hsxl_temporal_position_encoding_max_len(mm_state_dict).err = "none"
   /\ validate_hsxl_block_count(mm_state_dict) = "none")
  => /\ pc = "done"
     /\ IF has_mid_block(mm_state_dict)
          THEN w.version = "HSXL v2" /\ w.mid_block # NoneVal
          ELSE w.version = "HSXL v1" /\ w.mid_block = NoneVal

\* C2: once the max-length lookup has run, a dictionary without a key ending
\* in "pos_encoder.positional_encoding" has made construction fail with
\* MotionCompatibilityError, whatever its other keys; with such a key the
\* derived max sequence length is the middle dimension of that tensor.
C2_PosEncodingKeyRequired ==
  LookupDone =>
    IF ~HasPosKey(mm_state_dict)
      THEN pc = "failed" /\ error = "MotionCompatibilityError"
      ELSE w.encoding_max_len = FirstPosLength(mm_state_dict)

C2_Witness ==
  /\ pc = "failed"
  /\ error = "MotionCompatibilityError"
  /\ ~HasPosKey(mm_state_dict)
  /\ \E i \in DOMAIN mm_state_dict : ContainsDownBlocks(mm_state_dict[i].key)

\* C3: with a valid positional-encoding key, a dictionary whose maximum
\* down-level index is not exactly 2 makes construction fail with
\* MotionCompatibilityError.
C3_DownLevelMaximumMustBeTwo ==
  (/\ ValidationDone
   /\ HasPosKey(mm_state_dict)
   /\ ~MaxDownLevelIsTwo(mm_state_dict))
  => pc = "failed" /\ error = "MotionCompatibilityError"

\* the order the constructor's inspections and instantiations take
ConstructionOrder ==
  <<"get_max_len", "validate_block_count",
    "module", "module", "module", "module", "module", "module",
    "has_mid_block", "module">>

IsPrefix(s, t) == Len(s) <= Len(t) /\ \A i \in DOMAIN s : s[i] = t[i]

\* C4: the three inspections run in the order max-length lookup, depth
\* validation, middle-level detection, each once, and all three are done
\* before the first module is instantiated.
C4_InspectionsBeforeModules ==
  /\ IsPrefix(SelectSeq(trace, LAMBDA e : e # "module"),
              <<"get_max_len", "validate_block_count", "has_mid_block">>)
  /\ \A i \in DOMAIN trace :
       trace[i] = "module" =>
         \A e \in {"get_max_len", "validate_block_count", "has_mid_block"} :
           \E j \in 1..(i - 1) : trace[j] = e

\* C4 as amended: the max-length lookup and the depth validation run in that
\* order, each once, before the first module is instantiated; the middle-level
\* detection runs once, after the three down-level and the three up-level
\* modules are instantiated and before any middle-level module is.
C4_InspectionOrder == IsPrefix(trace, ConstructionOrder)

C4_Witness ==
  /\ Len(trace) = 9
  /\ trace[9] = "has_mid_block"
  /\ Len(w.down_blocks) = 3
  /\ Len(w.up_blocks) = 3

\* C5: the depth validator ends in a normal return or in
\* MotionCompatibilityError only, and a key with the down_blocks marker whose
\* index segment is no integer, or is missing, is skipped: the outcome is the
\* one of the dictionary without those keys.
C5_ValidatorSkipsMalformedKeys ==
  (trace # <<>> /\ trace[Len(trace)] = "validate_block_count")
  => /\ error \in {"none", "MotionCompatibilityError"}
     /\ error = validate_hsxl_block_count(
                  SelectSeq(mm_state_dict,
                            LAMBDA e : ContainsDownBlocks(e.key) =>
                                         (Len(e.key) >= 2 /\ IsIntLiteral(e.key[2]))))

\* C6: after any sequence of wrapper setter calls every TransformerTemporal
\* of every module holds the arguments of the most recent call of each
\* setter, all of them agree, and AD_video_length is the shared video_length.
C6_SettersReachEveryTemporal ==
  pc = "done" =>
    /\ \A p, q \in TemporalPaths(w) :
         LET a == TemporalAt(w, p)
             b == TemporalAt(w, q)
         IN /\ a.video_length = b.video_length
            /\ a.full_length = b.full_length
            /\ a.raw_scale_mask = b.raw_scale_mask
            /\ a.scale_min = b.scale_min
            /\ a.scale_max = b.scale_max
            /\ a.sub_idxs = b.sub_idxs
    /\ \A p \in TemporalPaths(w) :
         LET a == TemporalAt(w, p) IN
         /\ w.AD_video_length = a.video_length
         /\ lastCall.video # NoneVal =>
              <<a.video_length, a.full_length>> = lastCall.video[1]
         /\ lastCall.masks # NoneVal =>
              <<a.raw_scale_mask, a.scale_min, a.scale_max>> = lastCall.masks[1]
         /\ lastCall.sub # NoneVal => a.sub_idxs = lastCall.sub[1]
    /\ Cardinality(TemporalPaths(w)) = 15

C6_Witness ==
  /\ pc = "done"
  /\ lastCall.video # NoneVal
  /\ lastCall.masks # NoneVal
  /\ lastCall.sub = Some(Some(<<1, 0>>))
  /\ lastCall.scale # NoneVal

\* C7: forward completes and returns a tensor shaped as its input, whatever
\* video length is configured.
C7_ForwardPreservesShape ==
  fwd # NoneVal => fwd[1].out.err = "none" /\ fwd[1].out.shape = fwd[1].input

\* C7 as amended: forward completes and returns a tensor shaped (B,C,H,W) as
\* its input when B is a multiple of the configured video length and that
\* length does not exceed the positional encoders' max sequence length.
C7_ForwardPreservesShapeOfFrameBatches ==
  (/\ fwd # NoneVal
   /\ fwd[1].input[1] % fwd[1].number_of_frames = 0
   /\ \A m \in fwd[1].max_lengths : fwd[1].number_of_frames <= m)
  => fwd[1].out.err = "none" /\ fwd[1].out.shape = fwd[1].input

C7_Witness ==
  /\ fwd # NoneVal
  /\ fwd[1].number_of_frames = 8
  /\ fwd[1].input[1] = 8
  /\ fwd[1].input[3] # fwd[1].input[4]
  /\ fwd[1].out.err = "none"

\* every TemporalAttention of the wrapper's tree
TreeAttentions(wr) == UNION { AttentionsOf(TemporalAt(wr, p)) : p \in TemporalPaths(wr) }

\* C8: after a last set_scale_multiplier call with None or 1.0 every
\* TemporalAttention has scale None, as in a fresh tree; after a last call
\* with any other value m every TemporalAttention has scale m.
C8_ScaleIsLastMultiplier ==
  pc = "done" =>
    \A ta \in TreeAttentions(w) :
      IF lastCall.scale = NoneVal \/ lastCall.scale[1] \in {NoneVal, Some(0)}
        THEN ta.scale = NoneVal
        ELSE ta.scale = lastCall.scale[1]

\* C8 as amended: after a last call with None or a value within the relative
\* tolerance 1e-9 of 1.0 every TemporalAttention has scale None, as in a fresh
\* tree; after a last call with a value m outside that tolerance every
\* TemporalAttention has scale m.
C8_ScaleIsLastMultiplierUpToTolerance ==
  pc = "done" =>
    \A ta \in TreeAttentions(w) :
      IF lastCall.scale = NoneVal \/ lastCall.scale[1] = NoneVal
        THEN ta.scale = NoneVal
        ELSE LET d == lastCall.scale[1][1] IN
             IF 0 - 10 <= d /\ d <= 10
               THEN ta.scale = NoneVal
               ELSE ta.scale = Some(d)

C8_Witness ==
  /\ pc = "done"
  /\ lastCall.scale = Some(Some(5))
  /\ \A ta \in TreeAttentions(w) : ta.scale = NoneVal
  /\ Cardinality(TemporalPaths(w)) = 15

\* C9: a constructed wrapper has three down-level modules of widths 320, 640,
\* 1280 with 2 children each, three up-level modules of widths 1280, 640, 320
\* with 3 children each, a middle-level module, when present, of width 1280
\* with 1 child, and every positional encoder sized with the max sequence
\* length derived from the dictionary.
C9_TreeStructure ==
  pc = "done" =>
    /\ Len(w.down_blocks) = 3
    /\ Len(w.up_blocks) = 3
    /\ \A i \in 1..3 :
         /\ Len(w.down_blocks[i].temporal_attentions) = 2
         /\ \A j \in 1..2 :
              w.down_blocks[i].temporal_attentions[j].in_channels = <<320, 640, 1280>>[i]
         /\ Len(w.up_blocks[i].temporal_attentions) = 3
         /\ \A j \in 1..3 :
              w.up_blocks[i].temporal_attentions[j].in_channels = <<1280, 640, 320>>[i]
    /\ w.mid_block # NoneVal =>
         /\ Len(w.mid_block[1].temporal_attentions) = 1
         /\ w.mid_block[1].temporal_attentions[1].in_channels = 1280
    /\ w.encoding_max_len = FirstPosLength(mm_state_dict)
    /\ \A p \in TemporalPaths(w) :
         /\ EncoderLengths(TemporalAt(w, p)) = {w.encoding_max_len}
         /\ Cardinality(AttentionsOf(TemporalAt(w, p))) >= 1

C9_Witness ==
  /\ pc = "done"
  /\ w.encoding_max_len = 2
  /\ Len(mm_state_dict) = 3

\* the element of a 3-axis tensor at a 0-based index
At(t, i, j, k) == t.data[(i * t.shape[2] + j) * t.shape[3] + k + 1]

\* C10: for an input of B*F rows and S positions the element at row b*F+f,
\* position s is given to the wrapped attention at row b*S+s, sequence index
\* f, and the closing rearrangement puts every element back where it was.
C10_FramesBecomeTheSequenceAxis ==
  (attn # NoneVal /\ attn[1].stage = "done") =>
    LET a == attn[1]
        F == a.number_of_frames
        B == a.x.shape[1] \div F
        S == a.x.shape[2]
        C == a.x.shape[3]
        given == a.given[1]
    IN /\ given.shape = <<B * S, F, C>>
       /\ \A b \in 0..(B - 1), f \in 0..(F - 1), s \in 0..(S - 1), c \in 0..(C - 1) :
            At(given, b * S + s, f, c) = At(a.x, b * F + f, s, c)
       /\ a.out[1] = a.x

C10_Witness ==
  /\ attn # NoneVal
  /\ attn[1].stage = "done"
  /\ attn[1].number_of_frames >= 2
  /\ attn[1].x.shape[1] \div attn[1].number_of_frames >= 2
  /\ attn[1].x.shape[2] >= 2
  /\ attn[1].x.shape[3] >= 2

====
